---- MODULE Spec2Model ----
(***************************************************************************)
(* Model of analyzers/syntax.py: the recoverable syntax-diagnostics engine *)
(* (check_python_syntax, its two engines, the finding builder and the      *)
(* deduplicator).  One behaviour is one invocation of check_python_syntax. *)
(* The two parsers (parso.parse and ast.parse) are the environment: each   *)
(* parse attempt draws its outcome from the outcomes a parser can produce. *)
(* A text line is a sequence of one-character strings; the source is the   *)
(* sequence of its lines, i.e. the value of code.splitlines().             *)
(*                                                                         *)
(* Specifications:                                                         *)
(*   Spec          one call of check_python_syntax                         *)
(*   SpecAgg       the call made by an aggregator (the two                 *)
(*                 run_all_analyzers and submit_code), with what follows   *)
(*   SpecScenario  one call with CPython's ast.parse on a few texts        *)
(*   SpecTwice     the same call made twice, the parsers deterministic     *)
(*   SpecConc      two calls interleaved                                   *)
(*   SpecPure      the helpers (_dedupe_findings, _make_caret, _finding,   *)
(*                 _suggest_fix) called on their own                       *)
(*   SpecWalk      the tree walk alone, on larger trees                    *)
(***************************************************************************)
EXTENDS Integers, Sequences, FiniteSets, TLC

\* ---------------------------------------------------------------- bounds
\* Longest input, in lines.
MaxLines == 2
\* Largest parso tree, in nodes (the root included).
MaxNodes == 3

\* ------------------------------------------------------- Python values
\* Optional values: None is the empty tuple, a present value v is <<v>>.
None == <<>>
Some(v) == <<v>>

\* Python's "x or 1" on an Optional[int]: None and 0 are falsy.
OrOne(o) == IF o = None \/ o = Some(0) THEN 1 ELSE o[1]

\* Python's "x if isinstance(x, int) else d".
IntOr(o, d) == IF o = None THEN d ELSE o[1]

\* Python's 'filename or "<string>"'.
FilenameOr(fn) == IF fn = None \/ fn = Some("") THEN "<string>" ELSE fn[1]

\* The no-op statement a masked line is replaced by.
PASS == <<"p", "a", "s", "s">>

\* ---------------------------------------------------------------- inputs
\* The texts an input line is drawn from: a line indented with a space and a
\* tab that has a blank after its text too, and a line that already reads
\* "pass".
LineTexts == { <<" ", "\t", "x", " ">>, PASS }

RECURSIVE SeqsUpTo(_, _)
SeqsUpTo(S, n) ==
    IF n = 0 THEN { <<>> }
    ELSE LET shorter == SeqsUpTo(S, n - 1)
         IN  shorter \cup { Append(s, x) : s \in { t \in shorter : Len(t) = n - 1 }, x \in S }

Sources == SeqsUpTo(LineTexts, MaxLines)

Filenames == { None, Some("a.py") }

\* ---------------------------------------------------------------- helpers

\* A line getter without the range check: an index past the end wraps
\* around.
_safe_get_line_wraps(source, line) ==
    IF source = <<>> THEN <<>> ELSE source[((line - 1) % Len(source)) + 1]

\* _safe_get_line: the 1-indexed line, or the empty string out of range.
_safe_get_line(source, line) ==
    IF 1 <= line /\ line <= Len(source) THEN source[line] ELSE <<>>

\* A caret line whose underline runs up to and including end_col.
_make_caret_inclusive(col, end_col) ==
    LET c      == IF col = None \/ col[1] < 1 THEN 1 ELSE col[1]
        length == IF end_col # None /\ end_col[1] > c THEN end_col[1] - c + 1 ELSE 1
    IN  [i \in 1..(c - 1 + length) |-> IF i < c THEN " " ELSE "^"]

\* _make_caret: spaces up to col-1, then the underline (col and end_col
\* are Optional: "not col" takes None and 0 for 1).
_make_caret(col, end_col) ==
    LET c      == IF col = None \/ col[1] < 1 THEN 1 ELSE col[1]
        length == IF end_col # None /\ end_col[1] > c THEN end_col[1] - c ELSE 1
    IN  [i \in 1..(c - 1 + length) |-> IF i < c THEN " " ELSE "^"]

\* The severity every finding is built with.
Severity == "HIGH"

\* _finding: the normalized diagnostic record.  message is a record
\* [text, near]: near is the code fragment the tree walk appends ("near:
\* <frag>"), empty for parser messages.  The id is the tuple of the parts
\* the f-string joins; the suggestion text is not part of the record.
_finding(source, filename, category, message, line, col, end_line, end_col, idx) ==
    [ id       |-> <<"SYN001", line, col, idx>>,
      analyzer |-> "syntax",
      category |-> IF category = "" THEN "SyntaxError" ELSE category,
      rule_id  |-> "PY-SYNTAX",
      severity |-> Severity,
      message  |-> message,
      filename |-> FilenameOr(filename),
      location |-> [ start |-> [ line |-> line,
                                 column |-> IF col = 0 THEN 1 ELSE col ],
                     end   |-> [ line |-> IntOr(end_line, line),
                                 column |-> IntOr(end_col, IF col = 0 THEN 1 ELSE col) ] ],
      snippet  |-> _safe_get_line(source, line),
      caret    |-> _make_caret(Some(col), end_col) ]

\* str(n) for an integer, as its characters.
RECURSIVE Digits(_)
Digits(n) ==
    LET d == << "0", "1", "2", "3", "4", "5", "6", "7", "8", "9" >>[(n % 10) + 1]
    IN  IF n < 10 THEN << d >> ELSE Append(Digits(n \div 10), d)
Str(n) == IF n < 0 THEN << "-" >> \o Digits(0 - n) ELSE Digits(n)

\* The id as the f-string renders it: "SYN001-{line}-{col}-{idx}".
IdText(id) ==
    << "S", "Y", "N", "0", "0", "1", "-" >> \o Str(id[2]) \o << "-" >> \o Str(id[3])
        \o << "-" >> \o Str(id[4])

\* The deduplication key of a finding.
DedupeKey(f) ==
    << f.filename, f.category, f.message,
       f.location.start.line, f.location.start.column >>

RECURSIVE DedupeLoop(_, _, _, _)
DedupeLoop(findings, i, seen, out) ==
    IF i > Len(findings) THEN out
    ELSE LET key == DedupeKey(findings[i])
         IN  IF key \in seen
             THEN DedupeLoop(findings, i + 1, seen, out)
             ELSE DedupeLoop(findings, i + 1, seen \cup {key}, Append(out, findings[i]))

\* A deduplicator that drops nothing.
_dedupe_nothing(findings) == findings

\* The elements of seq at the indices of S, in order.
PickIdx(seq, S) ==
    [ r \in 1..Cardinality(S) |->
        seq[CHOOSE i \in S : Cardinality({ j \in S : j <= i }) = r] ]

\* A deduplicator that keeps, of each key, the last finding.
_dedupe_keep_last(findings) ==
    PickIdx(findings,
            { i \in 1..Len(findings) :
                \A j \in (i + 1)..Len(findings) : DedupeKey(findings[j]) # DedupeKey(findings[i]) })

\* _dedupe_findings: first occurrence of each key wins, order kept.
_dedupe_findings(findings) == DedupeLoop(findings, 1, {}, <<>>)

\* A report whose ok flag has the opposite sense.
ReportOkInverted(findings, filename) ==
    [ ok       |-> Len(findings) # 0,
      findings |-> findings,
      filename |-> FilenameOr(filename) ]

\* The report both engines return.
Report(findings, filename) ==
    [ ok       |-> Len(findings) = 0,
      findings |-> findings,
      filename |-> FilenameOr(filename) ]

\* --------------------------------------------------- the parsers' outputs

\* What ast.parse can raise as a SyntaxError, apart from the line number:
\* class, message, offset and end offset (absent on parsers that give no
\* span; an offset of 0 or None is a missing column).
ErrShapes ==
    { [ cls |-> "SyntaxError",      msg |-> "invalid syntax",    offset |-> Some(2), end_offset |-> Some(4) ],
      [ cls |-> "SyntaxError",      msg |-> "invalid syntax",    offset |-> None,    end_offset |-> None ],
      [ cls |-> "IndentationError", msg |-> "unexpected indent", offset |-> Some(2), end_offset |-> None ],
      [ cls |-> "IndentationError", msg |-> "unexpected indent", offset |-> Some(0), end_offset |-> Some(0) ] }

\* The line numbers a failure on an n-line text can carry: none, a line of
\* the text, or the line after the last one.
ErrLines(n) == { None } \cup { Some(l) : l \in 1..(n + 1) }

\* The SyntaxError exceptions of one parse attempt on an n-line text; the
\* empty text is a valid module and has none.
SyntaxErrors(n) ==
    IF n = 0 THEN {} ELSE
    { [ cls        |-> s.cls,
        msg        |-> s.msg,
        lineno     |-> l,
        offset     |-> s.offset,
        end_lineno |-> IF s.end_offset = None THEN None ELSE l,
        end_offset |-> s.end_offset ] : s \in ErrShapes, l \in ErrLines(n) }

\* Where a parso error node says it is: None when the position accessors
\* are missing (AttributeError), else 1-based line and the columns.
PosChoices ==
    { None,
      Some([ line |-> 1, col |-> 0, end_line |-> 1, end_col |-> 1 ]),
      Some([ line |-> 2, col |-> 1, end_line |-> 2, end_col |-> 3 ]) }

\* node.get_code().strip() of an error node.
Frags == { <<>>, <<"x">> }

\* A plain node, and the error nodes (ErrorLeaf / ErrorNode).
PlainNode == [ err |-> FALSE, pos |-> None, frag |-> <<>> ]
ErrorNodes ==
    { [ err |-> TRUE, pos |-> p, frag |-> g ] : p \in PosChoices, g \in Frags } \
        { [ err |-> TRUE, pos |-> p, frag |-> <<>> ] : p \in PosChoices \ { None } }

\* The trees parso.parse can build: n nodes, node 1 the module, every other
\* node the child of an earlier node; a node's children are in id order.
TreesOf(n) ==
    { [ n |-> n, parent |-> par, attr |-> at ] :
        par \in { q \in [1..n -> 0..(n - 1)] : q[1] = 0 /\ \A i \in 2..n : q[i] \in 1..(i - 1) },
        at  \in { a \in [1..n -> {PlainNode} \cup ErrorNodes] : a[1] = PlainNode } }

Trees == UNION { TreesOf(n) : n \in 1..MaxNodes }

\* The trees parso.parse can return for a source: the empty source has no
\* error node.
TreesFor(source) ==
    IF source = <<>>
    THEN { t \in Trees : \A n \in 1..t.n : ~t.attr[n].err }
    ELSE Trees

EmptyTree == [ n |-> 0, parent |-> <<>>, attr |-> <<>> ]

RECURSIVE ChildrenFrom(_, _, _)
ChildrenFrom(t, node, j) ==
    IF j > t.n THEN <<>>
    ELSE IF t.parent[j] = node THEN <<j>> \o ChildrenFrom(t, node, j + 1)
    ELSE ChildrenFrom(t, node, j + 1)

\* node.children, in order.
Children(t, node) == ChildrenFrom(t, node, 2)

\* str.find: the 0-based index of the first occurrence of frag in line, or -1.
Find(line, frag) ==
    LET hits == { i \in 0..(Len(line) - Len(frag)) : SubSeq(line, i + 1, i + Len(frag)) = frag }
    IN  IF hits = {} THEN -1 ELSE CHOOSE i \in hits : \A j \in hits : i <= j

RECURSIVE LeadingWS(_)
\* The maximal leading run of spaces and tabs of a line.
LeadingWS(original) ==
    IF original # <<>> /\ Head(original) \in { " ", "\t" }
    THEN <<Head(original)>> \o LeadingWS(Tail(original))
    ELSE <<>>

\* A masked form that drops the indentation.
MaskLineFlush(original) == PASS

\* The masked form of a line: same indentation, then the no-op.
MaskLine(original) == LeadingWS(original) \o PASS

\* ------------------------------------------------------------------ state

VARIABLES
    code,        \* the source passed to check_python_syntax, as its lines
    filename,    \* the filename passed (Optional)
    pc,          \* where the call is: "call", "parso", "walk", "masking", "returned", "raised"
    stdout,      \* what the call has printed
    tree,        \* _check_with_parso: the module parso.parse returned
    stack,       \* _check_with_parso: the nodes walk has still to visit, next first
    visited,     \* _check_with_parso: the nodes walk has visited, in order
    p_findings,  \* _check_with_parso: findings
    idx_holder,  \* _check_with_parso: idx_holder["i"]
    masked,      \* _check_with_masking: the working copy of the lines
    seen_lines,  \* _check_with_masking: the guard set of masked line numbers
    idx,         \* _check_with_masking: the emission counter
    findings,    \* _check_with_masking: findings
    failures,    \* the SyntaxErrors ast.parse has raised in this call, in order
    attempts,    \* the number of ast.parse attempts of this call
    mask_log,    \* the line numbers the loop has masked (assigned to), in order
    result,      \* the returned report (Optional)
    raised,      \* the exception the call propagated (Optional)
    caller,      \* the function that makes the call (NoCaller: the call is made directly)
    invoked,     \* the analyzers the caller has invoked, in order
    agg_report,  \* the report the caller has built (Optional)
    fn_call,     \* a helper called on its own: [fn, args] (NoCall: none is)
    fn_ret,      \* what that helper returned (Optional)
    prev,        \* the call made before this one on the same arguments (Optional)
    parked       \* the frame of a concurrent call that is not running now (Optional)

vars == << code, filename, pc, stdout, tree, stack, visited, p_findings, idx_holder,
           masked, seen_lines, idx, findings, failures, attempts, mask_log,
           result, raised, caller, invoked, agg_report, fn_call, fn_ret, prev, parked >>

parso_vars == << tree, stack, visited, p_findings, idx_holder >>
masking_vars == << masked, seen_lines, idx, findings >>
parser_vars == << failures, attempts, mask_log >>

\* What lives outside the call: no step of check_python_syntax touches it.
outer == << caller, invoked, agg_report, fn_call, fn_ret, prev, parked >>

\* The call is made directly (the __main__ demo, a test): no aggregator.
NoCaller == [ fn |-> "none", types |-> {} ]

\* No helper is called on its own.
NoCall == [ fn |-> "none", args |-> <<>> ]

\* Nothing outside the call is going on.
OuterIdle ==
    /\ caller = NoCaller
    /\ invoked = <<>>
    /\ agg_report = None
    /\ fn_call = NoCall
    /\ fn_ret = None
    /\ prev = None
    /\ parked = None


\* The locals of a call that has not started.
FreshFrame ==
    /\ stdout = <<>>
    /\ tree = EmptyTree
    /\ stack = <<>>
    /\ visited = <<>>
    /\ p_findings = <<>>
    /\ idx_holder = 0
    /\ masked = <<>>
    /\ seen_lines = {}
    /\ idx = 0
    /\ findings = <<>>
    /\ failures = <<>>
    /\ attempts = 0
    /\ mask_log = <<>>
    /\ result = None
    /\ raised = None

Init ==
    /\ code \in Sources
    /\ filename \in Filenames
    /\ pc = "call"
    /\ OuterIdle
    /\ FreshFrame

\* The frame of _check_with_parso is gone (returned from or unwound).
DropParsoFrame ==
    /\ tree' = EmptyTree
    /\ stack' = <<>>
    /\ visited' = <<>>
    /\ p_findings' = <<>>
    /\ idx_holder' = 0

\* An engine whose emission counter outlives the call.
EnterMaskingStaleCounter ==
    /\ findings' = <<>>
    /\ masked' = code
    /\ seen_lines' = {}
    /\ idx' = IF idx = 0 THEN 1 ELSE idx
    /\ pc' = "masking"

\* _check_with_masking is entered: its locals are created.
EnterMasking ==
    /\ findings' = <<>>
    /\ masked' = code
    /\ seen_lines' = {}
    /\ idx' = 1
    /\ pc' = "masking"

\* ------------------------------------------------------ the Selector

\* "import parso" succeeds: the tree-walk engine is called.
ImportParso ==
    /\ pc = "call"
    /\ stdout' = Append(stdout, ">>> Using PARSO engine")
    /\ pc' = "parso"
    /\ UNCHANGED << outer, code, filename, parso_vars, masking_vars, parser_vars, result, raised >>

\* "import parso" raises ImportError: the masking engine is called.
ImportMissing ==
    /\ pc = "call"
    /\ stdout' = Append(stdout, ">>> Parso not installed, using MASKING engine")
    /\ EnterMasking
    /\ UNCHANGED << outer, code, filename, parso_vars, parser_vars, result, raised >>

\* "import parso" raises something that is not an ImportError: no handler.
ImportRaises ==
    /\ pc = "call"
    /\ pc' = "raised"
    /\ raised' = Some("Exception")
    /\ UNCHANGED << outer, code, filename, stdout, parso_vars, masking_vars, parser_vars, result >>

\* ------------------------------------------------------ engine A: parso

\* parso.parse returns module t; the walk starts.
ParsoReturns(t) ==
    /\ tree' = t
    /\ stack' = <<1>>
    /\ visited' = <<>>
    /\ p_findings' = <<>>
    /\ idx_holder' = 1
    /\ pc' = "walk"
    /\ UNCHANGED << outer, code, filename, stdout, masking_vars, parser_vars, result, raised >>

\* parso is imported and parso.parse returns a module.
ParsoParse ==
    /\ pc = "parso"
    /\ \E t \in TreesFor(code) : ParsoReturns(t)

\* A walk that takes every node for an error node.
IsErrorNodeAlways(node) == TRUE

\* isinstance(node, (ErrorLeaf, ErrorNode)).
IsErrorNode(node) == node.err

\* The finding walk builds for an error node.
WalkFinding(source, fname, node, i) ==
    LET line     == IF node.pos = None THEN 1 ELSE node.pos[1].line
        col      == IF node.pos = None THEN 1 ELSE node.pos[1].col
        end_line == IF node.pos = None THEN 1 ELSE node.pos[1].end_line
        end_col  == IF node.pos = None THEN 1 ELSE node.pos[1].end_col
        found    == Find(_safe_get_line(source, line), node.frag)
        col2     == IF col = 1 /\ node.frag # <<>> /\ found >= 0 THEN found + 1 ELSE col
        msg      == [ text |-> "invalid syntax", near |-> node.frag ]
    IN  _finding(source, fname, "SyntaxError", msg, line, col2, Some(end_line), Some(end_col), i)

\* A walk that visits a node's siblings before its children.
WalkNodeBreadthFirst ==
    /\ pc = "walk"
    /\ stack # <<>>
    /\ LET node == Head(stack)
       IN  /\ IF IsErrorNode(tree.attr[node])
              THEN /\ p_findings' = Append(p_findings, WalkFinding(code, filename, tree.attr[node], idx_holder))
                   /\ idx_holder' = idx_holder + 1
              ELSE UNCHANGED << p_findings, idx_holder >>
           /\ stack' = Tail(stack) \o Children(tree, node)
           /\ visited' = Append(visited, node)
    /\ UNCHANGED << outer, code, filename, pc, stdout, tree, masking_vars, parser_vars, result, raised >>

\* walk(node, idx_holder) on the next node: an error node is recorded, then
\* the node's children are walked before anything else.
WalkNode ==
    /\ pc = "walk"
    /\ stack # <<>>
    /\ LET node == Head(stack)
       IN  /\ IF IsErrorNode(tree.attr[node])
              THEN /\ p_findings' = Append(p_findings, WalkFinding(code, filename, tree.attr[node], idx_holder))
                   /\ idx_holder' = idx_holder + 1
              ELSE UNCHANGED << p_findings, idx_holder >>
           /\ stack' = Children(tree, node) \o Tail(stack)
           /\ visited' = Append(visited, node)
    /\ UNCHANGED << outer, code, filename, pc, stdout, tree, masking_vars, parser_vars, result, raised >>

\* The walk is over: deduplicate and return the report.
ParsoReturn ==
    /\ pc = "walk"
    /\ stack = <<>>
    /\ result' = Some(Report(_dedupe_findings(p_findings), filename))
    /\ pc' = "returned"
    /\ UNCHANGED << outer, code, filename, stdout, parso_vars, masking_vars, parser_vars, raised >>

\* A fallback that hands the aborted walk's findings and counter on to the
\* masking engine.
ParsoFailsKeepsFindings ==
    /\ pc \in { "parso", "walk" }
    /\ stdout' = Append(stdout, ">>> Parso failed, falling back to MASKING engine")
    /\ DropParsoFrame
    /\ findings' = p_findings
    /\ idx' = IF idx_holder = 0 THEN 1 ELSE idx_holder
    /\ masked' = code
    /\ seen_lines' = {}
    /\ pc' = "masking"
    /\ UNCHANGED << outer, code, filename, parser_vars, result, raised >>

\* _check_with_parso raises (its imports, parso.parse or any step of the
\* walk): the Selector prints and calls the masking engine.
ParsoFails ==
    /\ pc \in { "parso", "walk" }
    /\ stdout' = Append(stdout, ">>> Parso failed, falling back to MASKING engine")
    /\ DropParsoFrame
    /\ EnterMasking
    /\ UNCHANGED << outer, code, filename, parser_vars, result, raised >>

\* --------------------------------------------- engine B: mask & re-parse

\* A loop without the progress check.
StalledNever(line, seen) == FALSE

\* A progress check that fires on any failure after the first.
StalledOnSecond(line, seen) == seen # {}

\* The progress check: the failing line was masked before.
Stalled(line, seen) == line \in seen

\* A handler that reports every failure under the base class name.
RecordedAsSyntaxError(e) ==
    Append(findings,
           _finding(code, filename, "SyntaxError", [ text |-> e.msg, near |-> <<>> ],
                    OrOne(e.lineno), OrOne(e.offset), e.end_lineno, e.end_offset, idx))

\* A handler that builds the finding from the working copy.
RecordedFromMasked(e) ==
    Append(findings,
           _finding(masked, filename, e.cls, [ text |-> e.msg, near |-> <<>> ],
                    OrOne(e.lineno), OrOne(e.offset), e.end_lineno, e.end_offset, idx))

\* A handler that numbers every finding 1.
RecordedCounterStuck(e) ==
    Append(findings,
           _finding(code, filename, e.cls, [ text |-> e.msg, near |-> <<>> ],
                    OrOne(e.lineno), OrOne(e.offset), e.end_lineno, e.end_offset, 1))

\* The findings after the handler has recorded exception e.
Recorded(e) ==
    Append(findings,
           _finding(code, filename, e.cls, [ text |-> e.msg, near |-> <<>> ],
                    OrOne(e.lineno), OrOne(e.offset), e.end_lineno, e.end_offset, idx))

\* The function returns: deduplicate and build the report.
MaskingReturn(fs) ==
    /\ result' = Some(Report(_dedupe_findings(fs), filename))
    /\ pc' = "returned"

\* ast.parse accepts the working copy: the loop ends.
ParseClean ==
    /\ pc = "masking"
    /\ attempts' = attempts + 1
    /\ MaskingReturn(findings)
    /\ UNCHANGED << outer, code, filename, stdout, parso_vars, masking_vars, failures, mask_log, raised >>

\* An except block that does not add the failing line to the guard set.
ExceptSyntaxErrorNoGuard(e) ==
    LET line == OrOne(e.lineno)
    IN  /\ attempts' = attempts + 1
        /\ failures' = Append(failures, e)
        /\ findings' = Recorded(e)
        /\ idx' = idx + 1
        /\ IF Stalled(line, seen_lines)
           THEN /\ MaskingReturn(findings')
                /\ UNCHANGED << seen_lines, masked, mask_log >>
           ELSE /\ seen_lines' = seen_lines
                /\ IF 1 <= line /\ line <= Len(masked)
                   THEN /\ masked' = [ masked EXCEPT ![line] = MaskLine(@) ]
                        /\ mask_log' = Append(mask_log, line)
                        /\ UNCHANGED << pc, result >>
                   ELSE /\ MaskingReturn(findings')
                        /\ UNCHANGED << masked, mask_log >>
        /\ UNCHANGED << outer, code, filename, stdout, parso_vars, raised >>

\* One pass through the except block, ast.parse having raised SyntaxError e.
ExceptSyntaxError(e) ==
    LET line == OrOne(e.lineno)
    IN  /\ attempts' = attempts + 1
        /\ failures' = Append(failures, e)
        /\ findings' = Recorded(e)
        /\ idx' = idx + 1
        /\ IF Stalled(line, seen_lines)
           THEN /\ MaskingReturn(findings')
                /\ UNCHANGED << seen_lines, masked, mask_log >>
           ELSE /\ seen_lines' = seen_lines \cup { line }
                /\ IF 1 <= line /\ line <= Len(masked)
                   THEN /\ masked' = [ masked EXCEPT ![line] = MaskLine(@) ]
                        /\ mask_log' = Append(mask_log, line)
                        /\ UNCHANGED << pc, result >>
                   ELSE /\ MaskingReturn(findings')
                        /\ UNCHANGED << masked, mask_log >>
        /\ UNCHANGED << outer, code, filename, stdout, parso_vars, raised >>

\* ast.parse raises a SyntaxError.
ParseSyntaxError ==
    /\ pc = "masking"
    /\ \E e \in SyntaxErrors(Len(masked)) : ExceptSyntaxError(e)

\* ast.parse raises an exception that is not a SyntaxError (RecursionError,
\* MemoryError, ValueError): no handler in the engine nor in the Selector.
ParseRaises ==
    /\ pc = "masking"
    /\ attempts' = attempts + 1
    /\ pc' = "raised"
    /\ raised' = Some("Exception")
    /\ UNCHANGED << outer, code, filename, stdout, parso_vars, masking_vars, failures, mask_log, result >>

Next ==
    \/ ImportParso
    \/ ImportMissing
    \/ ImportRaises
    \/ ParsoParse
    \/ WalkNode
    \/ ParsoReturn
    \/ ParsoFails
    \/ ParseClean
    \/ ParseSyntaxError
    \/ ParseRaises

Spec == Init /\ [][Next]_vars

\* ------------------------------------------------------- the callers

\* The three functions of the repository that submit code to the analyzers.
GATING == "analyzers/aggregator.run_all_analyzers"
PLAIN == "aggregator.run_all_analyzers"
API == "main.submit_code"

\* The analysis types of a request to submit_code that asks for the syntax
\* analysis (a request that does not name it gets none).
ApiTypes == { { "syntax" }, { "syntax", "style" } }

Callers ==
    { [ fn |-> GATING, types |-> { "syntax", "security", "style", "performance" } ],
      [ fn |-> PLAIN, types |-> { "syntax", "security", "style", "performance" } ] }
    \cup { [ fn |-> API, types |-> t ] : t \in ApiTypes }

\* The longest source a caller submits.
AggMaxLines == 1

\* The issues the security and style analyzers report between them.
OtherIssues == 0..1

\* The analyzer invoked last ("" before the first).
Stage == IF invoked = <<>> THEN "" ELSE invoked[Len(invoked)]

\* The caller invokes analyzer name.
Invoke(name) ==
    /\ agg_report = None
    /\ invoked' = Append(invoked, name)
    /\ UNCHANGED << caller, agg_report, fn_call, fn_ret, prev, parked >>

\* The caller calls check_python_syntax(source_code, filename=...).
CallSyntax ==
    /\ pc = "idle"
    /\ invoked = <<>>
    /\ Invoke("syntax")
    /\ pc' = "call"
    /\ UNCHANGED << code, filename, stdout, parso_vars, masking_vars, parser_vars, result, raised >>

\* The caller invokes one of the other analyzers, which returns.
RunAnalyzer(name) ==
    /\ Invoke(name)
    /\ UNCHANGED << code, filename, pc, stdout, parso_vars, masking_vars, parser_vars, result, raised >>

\* The caller returns report r.
AggReturn(r) ==
    /\ agg_report = None
    /\ agg_report' = Some(r)
    /\ UNCHANGED << caller, invoked, fn_call, fn_ret, prev, parked >>
    /\ UNCHANGED << code, filename, pc, stdout, parso_vars, masking_vars, parser_vars, result, raised >>

\* build_summary(results) of either aggregator, the other analyzers having
\* reported others issues.
build_summary(syntax_report, others) ==
    LET syntax_issues == Len(syntax_report.findings)
        total_issues  == syntax_issues + others
    IN  [ total_issues   |-> total_issues,
          syntax_issues  |-> syntax_issues,
          overall_status |-> IF total_issues = 0 THEN "PASS" ELSE "ERRORS FOUND" ]

\* analyzers/aggregator.py, run_all_analyzers: the syntax check first.
Gating_Syntax ==
    /\ caller.fn = GATING
    /\ CallSyntax

\* A gate that is never closed.
GateOpen(syntax_report) == FALSE

\* The gate: the syntax report is not ok.
Gate(syntax_report) == ~ syntax_report.ok

\* The gate is closed: the partial report is returned.
Gating_Stop ==
    /\ caller.fn = GATING
    /\ pc = "returned"
    /\ Stage = "syntax"
    /\ Gate(result[1])
    /\ AggReturn([ keys |-> { "syntax", "summary" },
                   syntax |-> result[1],
                   summary |-> [ overall_status |-> "STOPPED_DUE_TO_SYNTAX_ERRORS" ] ])

Gating_Security ==
    /\ caller.fn = GATING
    /\ pc = "returned"
    /\ Stage = "syntax"
    /\ ~ Gate(result[1])
    /\ RunAnalyzer("security")

Gating_Style ==
    /\ caller.fn = GATING
    /\ Stage = "security"
    /\ RunAnalyzer("style")

Gating_Performance ==
    /\ caller.fn = GATING
    /\ Stage = "style"
    /\ RunAnalyzer("performance")

Gating_Summary ==
    /\ caller.fn = GATING
    /\ Stage = "performance"
    /\ \E others \in OtherIssues :
        AggReturn([ keys |-> { "syntax", "security", "style", "performance", "summary" },
                    syntax |-> result[1],
                    summary |-> build_summary(result[1], others) ])

\* aggregator.py, run_all_analyzers: the syntax check first, then every
\* other analyzer whatever the syntax report says.
Plain_Syntax ==
    /\ caller.fn = PLAIN
    /\ CallSyntax

Plain_Security ==
    /\ caller.fn = PLAIN
    /\ pc = "returned"
    /\ Stage = "syntax"
    /\ RunAnalyzer("security")

Plain_Style ==
    /\ caller.fn = PLAIN
    /\ Stage = "security"
    /\ RunAnalyzer("style")

\* PERFORMANCE_AVAILABLE is true: the performance analyzer runs.
Plain_Performance ==
    /\ caller.fn = PLAIN
    /\ Stage = "style"
    /\ RunAnalyzer("performance")

\* The summary, after the performance analyzer or (PERFORMANCE_AVAILABLE
\* is false) its placeholder.
Plain_Summary ==
    /\ caller.fn = PLAIN
    /\ Stage \in { "style", "performance" }
    /\ \E others \in OtherIssues :
        AggReturn([ keys |-> { "syntax", "security", "style", "performance", "summary" },
                    syntax |-> result[1],
                    summary |-> build_summary(result[1], others) ])

\* main.py, submit_code: the syntax check when the request names it.
Api_Syntax ==
    /\ caller.fn = API
    /\ "syntax" \in caller.types
    /\ CallSyntax

\* submit_code is past its syntax block.
ApiPastSyntax ==
    IF "syntax" \in caller.types THEN pc = "returned" ELSE pc = "idle"

\* The style analysis when the request names it, whatever the syntax report.
Api_Style ==
    /\ caller.fn = API
    /\ "style" \in caller.types
    /\ ApiPastSyntax
    /\ Stage # "style"
    /\ RunAnalyzer("style")

\* The response: the results of the analyses that ran.
Api_Response ==
    /\ caller.fn = API
    /\ ApiPastSyntax
    /\ "style" \in caller.types => Stage = "style"
    /\ AggReturn([ keys |-> { invoked[i] : i \in 1..Len(invoked) },
                   summary |-> [ overall_status |-> "analyzed" ] ])

InitAgg ==
    /\ code \in SeqsUpTo(LineTexts, AggMaxLines)
    /\ filename = Some("a.py")
    /\ pc = "idle"
    /\ caller \in Callers
    /\ invoked = <<>>
    /\ agg_report = None
    /\ fn_call = NoCall
    /\ fn_ret = None
    /\ prev = None
    /\ parked = None
    /\ FreshFrame

NextAgg ==
    \/ Gating_Syntax
    \/ Gating_Stop
    \/ Gating_Security
    \/ Gating_Style
    \/ Gating_Performance
    \/ Gating_Summary
    \/ Plain_Syntax
    \/ Plain_Security
    \/ Plain_Style
    \/ Plain_Performance
    \/ Plain_Summary
    \/ Api_Syntax
    \/ Api_Style
    \/ Api_Response
    \/ ImportParso
    \/ ImportMissing
    \/ ImportRaises
    \/ ParsoParse
    \/ WalkNode
    \/ ParsoReturn
    \/ ParsoFails
    \/ ParseClean
    \/ ParseSyntaxError
    \/ ParseRaises

SpecAgg == InitAgg /\ [][NextAgg]_vars

\* ------------------------------------------- CPython on a few texts

\* The lines of the multi-error scenario, and a well-formed statement.
DefBad == << "d", "e", "f", " ", "x", "(", ":" >>
IndentedPass == << " ", " " >> \o PASS
Dangling == << "x", " ", "=", "=" >>
Assign == << "x", " ", "=", " ", "1" >>

ScenarioTexts == { DefBad, IndentedPass, Dangling, Assign }

\* The longest source of the scenario.
ScenarioLines == 3

\* "def x(:\n  pass\nx ==\n".splitlines()
ScenarioC == << DefBad, IndentedPass, Dangling >>

\* The statements CPython rejects as "invalid syntax", with the offset and
\* end offset it reports.
Malformed == { DefBad, Dangling }
OffsetsOf(text) == IF text = DefBad THEN << 7, 8 >> ELSE << 5, 5 >>

\* The line starts with white space. No text here opens a block, so CPython
\* rejects every such line as an unexpected indent.
Indented(text) == LeadingWS(text) # <<>>

\* ast.parse on lines made of the scenario's texts and their masked forms:
\* None when it accepts them, else the SyntaxError of the first line it
\* rejects.
CPythonParse(lines) ==
    LET bad == { i \in 1..Len(lines) : Indented(lines[i]) \/ lines[i] \in Malformed }
    IN  IF bad = {} THEN None
        ELSE LET i == CHOOSE j \in bad : \A k \in bad : j <= k
             IN  IF Indented(lines[i])
                 THEN Some([ cls |-> "IndentationError", msg |-> "unexpected indent",
                             lineno |-> Some(i), offset |-> Some(Len(LeadingWS(lines[i]))),
                             end_lineno |-> Some(i), end_offset |-> Some(-1) ])
                 ELSE Some([ cls |-> "SyntaxError", msg |-> "invalid syntax",
                             lineno |-> Some(i), offset |-> Some(OffsetsOf(lines[i])[1]),
                             end_lineno |-> Some(i), end_offset |-> Some(OffsetsOf(lines[i])[2]) ])

\* CPython accepts the working copy.
CPythonClean ==
    /\ CPythonParse(masked) = None
    /\ ParseClean

\* CPython rejects the working copy.
CPythonSyntaxError ==
    /\ pc = "masking"
    /\ CPythonParse(masked) # None
    /\ ExceptSyntaxError(CPythonParse(masked)[1])

InitScenario ==
    /\ code \in SeqsUpTo(ScenarioTexts, ScenarioLines)
    /\ filename \in Filenames
    /\ pc = "call"
    /\ OuterIdle
    /\ FreshFrame

\* parso is missing, or it is there and fails: either way the masking
\* engine runs, on CPython.
NextScenario ==
    \/ ImportParso
    \/ ImportMissing
    \/ ParsoFails
    \/ CPythonClean
    \/ CPythonSyntaxError

SpecScenario == InitScenario /\ [][NextScenario]_vars

\* ------------------------------------------------ the suggestion rules

\* str.lower() on the letters of the messages.
UpperCase == << "A", "B", "C", "D", "E", "F", "G", "H", "I", "J", "K", "L", "M",
               "N", "O", "P", "Q", "R", "S", "T", "U", "V", "W", "X", "Y", "Z" >>
LowerCase == << "a", "b", "c", "d", "e", "f", "g", "h", "i", "j", "k", "l", "m",
               "n", "o", "p", "q", "r", "s", "t", "u", "v", "w", "x", "y", "z" >>
LowerChar(c) ==
    IF \E i \in 1..Len(UpperCase) : UpperCase[i] = c
    THEN LowerCase[CHOOSE i \in 1..Len(UpperCase) : UpperCase[i] = c]
    ELSE c
Lower(s) == [ i \in 1..Len(s) |-> LowerChar(s[i]) ]

\* needle in hay.
In(needle, hay) == Find(hay, needle) >= 0

\* str.startswith.
StartsWith(s, prefix) ==
    Len(prefix) <= Len(s) /\ SubSeq(s, 1, Len(prefix)) = prefix

\* The characters str.strip() and str.split() take for white space.
WhiteSpace == { " ", "\t" }

\* str.strip().
RECURSIVE LStrip(_)
LStrip(s) == IF s # <<>> /\ Head(s) \in WhiteSpace THEN LStrip(Tail(s)) ELSE s
RECURSIVE RStrip(_)
RStrip(s) ==
    IF s # <<>> /\ s[Len(s)] \in WhiteSpace THEN RStrip(SubSeq(s, 1, Len(s) - 1)) ELSE s
Strip(s) == RStrip(LStrip(s))

\* The characters of s before its first white space.
RECURSIVE UpToSpace(_)
UpToSpace(s) ==
    IF s = <<>> \/ Head(s) \in WhiteSpace THEN <<>> ELSE << Head(s) >> \o UpToSpace(Tail(s))

\* (snippet.strip().split()[:1] or [""])[0].lower()
FirstToken(snippet) == Lower(UpToSpace(Strip(snippet)))

\* The keywords that open a block.
headers ==
    { << "d", "e", "f" >>,
      << "i", "f" >>,
      << "f", "o", "r" >>,
      << "w", "h", "i", "l", "e" >>,
      << "e", "l", "i", "f" >>,
      << "e", "l", "s", "e" >>,
      << "t", "r", "y" >>,
      << "e", "x", "c", "e", "p", "t" >>,
      << "f", "i", "n", "a", "l", "l", "y" >>,
      << "w", "i", "t", "h" >>,
      << "c", "l", "a", "s", "s" >> }

\* The conditions of the rules, m the lower-cased message; in the order of
\* the source.
Rule_UnterminatedString(m, snippet) ==
    In(<< "e", "o", "l", " ", "w", "h", "i", "l", "e", " ", "s", "c", "a", "n", "n", "i", "n", "g", " ", "s", "t", "r", "i", "n", "g", " ", "l", "i", "t", "e", "r", "a", "l" >>, m) \/ In(<< "u", "n", "t", "e", "r", "m", "i", "n", "a", "t", "e", "d", " ", "s", "t", "r", "i", "n", "g" >>, m)
Rule_LoneQuote(m, snippet) ==
    Strip(snippet) \in { << "'" >>, << "\"" >>, << "\"", "\"", "\"" >>, << "'", "'", "'" >> }
Rule_TabsAndSpaces(m, snippet) ==
    In(<< "i", "n", "c", "o", "n", "s", "i", "s", "t", "e", "n", "t", " ", "u", "s", "e", " ", "o", "f", " ", "t", "a", "b", "s", " ", "a", "n", "d", " ", "s", "p", "a", "c", "e", "s" >>, m)
Rule_Indentation(m, snippet) ==
    In(<< "i", "n", "d", "e", "n", "t", "a", "t", "i", "o", "n", "e", "r", "r", "o", "r" >>, m) \/ StartsWith(m, << "e", "x", "p", "e", "c", "t", "e", "d", " ", "a", "n", " ", "i", "n", "d", "e", "n", "t", "e", "d", " ", "b", "l", "o", "c", "k" >>)
Rule_UnexpectedEOF(m, snippet) ==
    In(<< "u", "n", "e", "x", "p", "e", "c", "t", "e", "d", " ", "e", "o", "f", " ", "w", "h", "i", "l", "e", " ", "p", "a", "r", "s", "i", "n", "g" >>, m) \/ In(<< "u", "n", "e", "x", "p", "e", "c", "t", "e", "d", " ", "e", "n", "d", " ", "o", "f", " ", "f", "i", "l", "e" >>, m)
Rule_AssignToLiteral(m, snippet) ==
    In(<< "c", "a", "n", "n", "o", "t", " ", "a", "s", "s", "i", "g", "n", " ", "t", "o" >>, m) /\ In(<< "l", "i", "t", "e", "r", "a", "l" >>, m)
Rule_DuplicateArgument(m, snippet) ==
    In(<< "d", "u", "p", "l", "i", "c", "a", "t", "e", " ", "a", "r", "g", "u", "m", "e", "n", "t" >>, m) /\ In(<< "f", "u", "n", "c", "t", "i", "o", "n", " ", "d", "e", "f", "i", "n", "i", "t", "i", "o", "n" >>, m)
Rule_ReturnOutside(m, snippet) ==
    In(<< "'", "r", "e", "t", "u", "r", "n", "'", " ", "o", "u", "t", "s", "i", "d", "e", " ", "f", "u", "n", "c", "t", "i", "o", "n" >>, m)
Rule_BreakOutside(m, snippet) ==
    In(<< "'", "b", "r", "e", "a", "k", "'", " ", "o", "u", "t", "s", "i", "d", "e", " ", "l", "o", "o", "p" >>, m) \/ In(<< "'", "c", "o", "n", "t", "i", "n", "u", "e", "'", " ", "n", "o", "t", " ", "p", "r", "o", "p", "e", "r", "l", "y", " ", "i", "n", " ", "l", "o", "o", "p" >>, m)
Rule_FStringBrace(m, snippet) ==
    In(<< "f", "-", "s", "t", "r", "i", "n", "g" >>, m) /\ In(<< "u", "n", "m", "a", "t", "c", "h", "e", "d" >>, m)
Rule_InvalidCharacter(m, snippet) ==
    In(<< "i", "n", "v", "a", "l", "i", "d", " ", "c", "h", "a", "r", "a", "c", "t", "e", "r" >>, m)
Rule_LoneCloseParen(m, snippet) ==
    Strip(snippet) = << ")" >>
Rule_OpenParen(m, snippet) ==
    In(<< "i", "n", "v", "a", "l", "i", "d", " ", "s", "y", "n", "t", "a", "x" >>, m) /\ In(<< "(" >>, snippet) /\ ~ In(<< ")" >>, snippet)
Rule_AssignInCondition(m, snippet) ==
    /\ In(<< "i", "n", "v", "a", "l", "i", "d", " ", "s", "y", "n", "t", "a", "x" >>, m) /\ In(<< "=" >>, snippet) /\ ~ In(<< "=", "=" >>, snippet)
    /\ \E kw \in { << "i", "f" >>, << "w", "h", "i", "l", "e" >> } : In(kw, snippet)
Rule_MissingColon(m, snippet) ==
    \/ In(<< "e", "x", "p", "e", "c", "t", "e", "d", " ", "'", ":", "'" >>, m)
    \/ In(<< "m", "i", "s", "s", "i", "n", "g", " ", "'", ":", "'" >>, m)
    \/ In(<< "i", "n", "v", "a", "l", "i", "d", " ", "s", "y", "n", "t", "a", "x" >>, m) /\ FirstToken(snippet) \in headers

\* The suggestion of each rule.
Suggestions ==
    << "Close the string with matching quotes.",
       "You started a string but didn't close it. Add the matching quote.",
       "Do not mix tabs and spaces. Use only spaces (recommended, 4 per indent).",
       "Fix indentation (indent the block consistently with spaces).",
       "Complete the unfinished block or expression.",
       "Left side of '=' must be a variable; use '==' for comparison if intended.",
       "Each function parameter must have a unique name.",
       "Move 'return' inside a function definition.",
       "Use 'break' or 'continue' only inside a loop.",
       "Double braces '{{ }}' if you want literal '{' characters inside an f-string.",
       "Replace non-standard characters (like smart quotes or dashes) with plain ASCII ones.",
       "This closing parenthesis has no matching opening '(' before it.",
       "Check your parentheses. Make sure each '(' has a matching ')'.",
       "Use '==' for comparison inside conditions, not '='.",
       "Add a colon (:) at the end of the statement header." >>

\* The number of rules.
NumRules == Len(Suggestions)

\* A classifier that tries the parenthesis rule first.
_suggest_fix_parens_first(msg, snippet) ==
    LET m == Lower(msg)
    IN  IF Rule_OpenParen(m, snippet) THEN Suggestions[13]
        ELSE IF Rule_UnterminatedString(m, snippet) THEN Suggestions[1]
        ELSE IF Rule_LoneQuote(m, snippet) THEN Suggestions[2]
        ELSE IF Rule_TabsAndSpaces(m, snippet) THEN Suggestions[3]
        ELSE IF Rule_Indentation(m, snippet) THEN Suggestions[4]
        ELSE IF Rule_UnexpectedEOF(m, snippet) THEN Suggestions[5]
        ELSE IF Rule_AssignToLiteral(m, snippet) THEN Suggestions[6]
        ELSE IF Rule_DuplicateArgument(m, snippet) THEN Suggestions[7]
        ELSE IF Rule_ReturnOutside(m, snippet) THEN Suggestions[8]
        ELSE IF Rule_BreakOutside(m, snippet) THEN Suggestions[9]
        ELSE IF Rule_FStringBrace(m, snippet) THEN Suggestions[10]
        ELSE IF Rule_InvalidCharacter(m, snippet) THEN Suggestions[11]
        ELSE IF Rule_LoneCloseParen(m, snippet) THEN Suggestions[12]
        ELSE IF Rule_AssignInCondition(m, snippet) THEN Suggestions[14]
        ELSE IF Rule_MissingColon(m, snippet) THEN Suggestions[15]
        ELSE ""

\* _suggest_fix: the suggestion of the first rule that holds, or "".
_suggest_fix(msg, snippet) ==
    LET m == Lower(msg)
    IN  IF Rule_UnterminatedString(m, snippet) THEN Suggestions[1]
        ELSE IF Rule_LoneQuote(m, snippet) THEN Suggestions[2]
        ELSE IF Rule_TabsAndSpaces(m, snippet) THEN Suggestions[3]
        ELSE IF Rule_Indentation(m, snippet) THEN Suggestions[4]
        ELSE IF Rule_UnexpectedEOF(m, snippet) THEN Suggestions[5]
        ELSE IF Rule_AssignToLiteral(m, snippet) THEN Suggestions[6]
        ELSE IF Rule_DuplicateArgument(m, snippet) THEN Suggestions[7]
        ELSE IF Rule_ReturnOutside(m, snippet) THEN Suggestions[8]
        ELSE IF Rule_BreakOutside(m, snippet) THEN Suggestions[9]
        ELSE IF Rule_FStringBrace(m, snippet) THEN Suggestions[10]
        ELSE IF Rule_InvalidCharacter(m, snippet) THEN Suggestions[11]
        ELSE IF Rule_LoneCloseParen(m, snippet) THEN Suggestions[12]
        ELSE IF Rule_OpenParen(m, snippet) THEN Suggestions[13]
        ELSE IF Rule_AssignInCondition(m, snippet) THEN Suggestions[14]
        ELSE IF Rule_MissingColon(m, snippet) THEN Suggestions[15]
        ELSE ""

\* The parser messages and the snippets _suggest_fix is called on.
SomeMessages ==
    { << "u", "n", "t", "e", "r", "m", "i", "n", "a", "t", "e", "d", " ", "s", "t", "r", "i", "n", "g", " ", "l", "i", "t", "e", "r", "a", "l" >>,
      << "E", "O", "L", " ", "w", "h", "i", "l", "e", " ", "s", "c", "a", "n", "n", "i", "n", "g", " ", "s", "t", "r", "i", "n", "g", " ", "l", "i", "t", "e", "r", "a", "l" >>,
      << "i", "n", "v", "a", "l", "i", "d", " ", "s", "y", "n", "t", "a", "x" >>,
      << "i", "n", "c", "o", "n", "s", "i", "s", "t", "e", "n", "t", " ", "u", "s", "e", " ", "o", "f", " ", "t", "a", "b", "s", " ", "a", "n", "d", " ", "s", "p", "a", "c", "e", "s", " ", "i", "n", " ", "i", "n", "d", "e", "n", "t", "a", "t", "i", "o", "n" >>,
      << "e", "x", "p", "e", "c", "t", "e", "d", " ", "a", "n", " ", "i", "n", "d", "e", "n", "t", "e", "d", " ", "b", "l", "o", "c", "k" >>,
      << "u", "n", "e", "x", "p", "e", "c", "t", "e", "d", " ", "E", "O", "F", " ", "w", "h", "i", "l", "e", " ", "p", "a", "r", "s", "i", "n", "g" >>,
      << "c", "a", "n", "n", "o", "t", " ", "a", "s", "s", "i", "g", "n", " ", "t", "o", " ", "l", "i", "t", "e", "r", "a", "l" >>,
      << "e", "x", "p", "e", "c", "t", "e", "d", " ", "'", ":", "'" >>,
      << "i", "n", "v", "a", "l", "i", "d", " ", "s", "y", "n", "t", "a", "x", " ", "n", "e", "a", "r", ":", " ", "'", "f", "(", "u", "n", "t", "e", "r", "m", "i", "n", "a", "t", "e", "d", " ", "s", "t", "r", "i", "n", "g", "'" >>,
      << "u", "n", "e", "x", "p", "e", "c", "t", "e", "d", " ", "i", "n", "d", "e", "n", "t" >>,
      << "'", "r", "e", "t", "u", "r", "n", "'", " ", "o", "u", "t", "s", "i", "d", "e", " ", "f", "u", "n", "c", "t", "i", "o", "n" >>,
      << "i", "n", "v", "a", "l", "i", "d", " ", "c", "h", "a", "r", "a", "c", "t", "e", "r" >>,
      << "d", "u", "p", "l", "i", "c", "a", "t", "e", " ", "a", "r", "g", "u", "m", "e", "n", "t", " ", "'", "a", "'", " ", "i", "n", " ", "f", "u", "n", "c", "t", "i", "o", "n", " ", "d", "e", "f", "i", "n", "i", "t", "i", "o", "n" >>,
      << "'", "b", "r", "e", "a", "k", "'", " ", "o", "u", "t", "s", "i", "d", "e", " ", "l", "o", "o", "p" >>,
      << "f", "-", "s", "t", "r", "i", "n", "g", ":", " ", "u", "n", "m", "a", "t", "c", "h", "e", "d", " ", "'", ")", "'" >> }

SomeSnippets ==
    { << "'" >>,
      << ")" >>,
      << " ", ")", " " >>,
      << "f", "(", "x" >>,
      << "i", "f", " ", "x", " ", "=", " ", "1" >>,
      << "D", "E", "F", " ", "f", "(", ")" >>,
      << "x", " ", "=", " ", "1" >>,
      <<>>,
      << "p", "r", "i", "n", "t", "(", "1", ")" >>,
      << "i", "f", " ", "(", "x", " ", "=", " ", "1" >>,
      << "\t", "w", "h", "i", "l", "e", " ", "x" >> }

SuggestCalls ==
    { [ fn |-> "_suggest_fix", args |-> << m, s >> ] : m \in SomeMessages, s \in SomeSnippets }

\* _suggest_fix(msg, snippet) returns.
Call_suggest_fix ==
    /\ fn_call.fn = "_suggest_fix"
    /\ fn_ret = None
    /\ fn_ret' = Some(_suggest_fix(fn_call.args[1], fn_call.args[2]))
    /\ UNCHANGED << caller, invoked, agg_report, fn_call, prev, parked >>
    /\ UNCHANGED << code, filename, pc, stdout, parso_vars, masking_vars, parser_vars, result, raised >>

\* ------------------------------------------- the helpers on their own

\* The longest list of findings _dedupe_findings is called on.
MaxFindings == 3

\* Findings to deduplicate: the first two differ in the id only, the others
\* differ from them in the column or in the category.
SomeFindings ==
    { _finding(<< PASS >>, None, "SyntaxError", [ text |-> "invalid syntax", near |-> <<>> ],
               1, 1, None, None, 1),
      _finding(<< PASS >>, None, "SyntaxError", [ text |-> "invalid syntax", near |-> <<>> ],
               1, 1, None, None, 2),
      _finding(<< PASS >>, None, "SyntaxError", [ text |-> "invalid syntax", near |-> <<>> ],
               1, 2, None, None, 3),
      _finding(<< PASS >>, None, "IndentationError", [ text |-> "invalid syntax", near |-> <<>> ],
               1, 1, None, None, 4) }

DedupeCalls ==
    { [ fn |-> "_dedupe_findings", args |-> fs ] : fs \in SeqsUpTo(SomeFindings, MaxFindings) }

\* The largest column _make_caret is called on.
MaxCol == 4

\* A column: missing, or an integer (negative, zero, positive).
Cols == { None } \cup { Some(n) : n \in (0 - 1)..MaxCol }

CaretCalls == { [ fn |-> "_make_caret", args |-> << c, e >> ] : c \in Cols, e \in Cols }

\* _dedupe_findings(findings) returns.
Call_dedupe_findings ==
    /\ fn_call.fn = "_dedupe_findings"
    /\ fn_ret = None
    /\ fn_ret' = Some(_dedupe_findings(fn_call.args))
    /\ UNCHANGED << caller, invoked, agg_report, fn_call, prev, parked >>
    /\ UNCHANGED << code, filename, pc, stdout, parso_vars, masking_vars, parser_vars, result, raised >>

\* _make_caret(col, end_col) returns.
Call_make_caret ==
    /\ fn_call.fn = "_make_caret"
    /\ fn_ret = None
    /\ fn_ret' = Some(_make_caret(fn_call.args[1], fn_call.args[2]))
    /\ UNCHANGED << caller, invoked, agg_report, fn_call, prev, parked >>
    /\ UNCHANGED << code, filename, pc, stdout, parso_vars, masking_vars, parser_vars, result, raised >>

\* _finding is called on a one-line source with a line, a column (an
\* integer: negative, zero, positive) and an end position (each part
\* missing or an integer).
FindingCalls ==
    { [ fn |-> "_finding", args |-> << l, c, el, ec >> ] :
        l \in 1..2, c \in (0 - 1)..MaxCol, el \in { None, Some(1) }, ec \in Cols }

\* _finding(source, filename, category, message, line, col, end_line,
\* end_col, idx) returns.
Call_finding ==
    /\ fn_call.fn = "_finding"
    /\ fn_ret = None
    /\ fn_ret' = Some(_finding(<< PASS >>, None, "SyntaxError",
                               [ text |-> "invalid syntax", near |-> <<>> ],
                               fn_call.args[1], fn_call.args[2],
                               fn_call.args[3], fn_call.args[4], 1))
    /\ UNCHANGED << caller, invoked, agg_report, fn_call, prev, parked >>
    /\ UNCHANGED << code, filename, pc, stdout, parso_vars, masking_vars, parser_vars, result, raised >>

InitPure ==
    /\ code = <<>>
    /\ filename = None
    /\ pc = "idle"
    /\ caller = NoCaller
    /\ invoked = <<>>
    /\ agg_report = None
    /\ \/ fn_call \in DedupeCalls
       \/ fn_call \in CaretCalls
       \/ fn_call \in FindingCalls
       \/ fn_call \in SuggestCalls
    /\ fn_ret = None
    /\ prev = None
    /\ parked = None
    /\ FreshFrame

NextPure ==
    \/ Call_dedupe_findings
    \/ Call_make_caret
    \/ Call_finding
    \/ Call_suggest_fix

SpecPure == InitPure /\ [][NextPure]_vars

\* ------------------------------------------- the same call, made again

RECURSIVE MaskAll(_, _)
\* The working copy after the lines of log have been masked.
MaskAll(lines, log) ==
    IF log = <<>> THEN lines
    ELSE MaskAll([ lines EXCEPT ![Head(log)] = MaskLine(@) ], Tail(log))

\* What a call has asked of ast.parse and what it got: attempt k parsed the
\* source with the first k-1 masked lines masked; it raised failures[k], or
\* (the last attempt of a call that is over) returned or raised otherwise.
Asked(src, log, fails, n, at) ==
    { << MaskAll(src, SubSeq(log, 1, k - 1)),
         IF k <= Len(fails) THEN << "SyntaxError", Some(fails[k]) >>
         ELSE IF at = "returned" THEN << "clean", None >> ELSE << "raises", None >> >> :
      k \in { j \in 1..n : j <= Len(fails) \/ at \in { "returned", "raised" } } }

\* ast.parse is a function of the text: what it did with the working copy
\* when this call or the one before asked it earlier (empty: never asked).
Known ==
    LET asked == Asked(code, mask_log, failures, attempts, pc)
                 \cup (IF prev = None THEN {}
                       ELSE Asked(code, prev[1].mask_log, prev[1].failures,
                                  prev[1].attempts, "returned"))
    IN  { a[2] : a \in { b \in asked : b[1] = masked } }

\* The call has returned; the same call is made again.  What the first
\* call left in its locals is still there: every use must overwrite it.
CallAgain ==
    /\ pc = "returned"
    /\ prev = None
    /\ prev' = Some([ result |-> result[1], stdout |-> stdout, tree |-> tree,
                      failures |-> failures, attempts |-> attempts, mask_log |-> mask_log ])
    /\ pc' = "call"
    /\ stdout' = <<>>
    /\ failures' = <<>>
    /\ attempts' = 0
    /\ mask_log' = <<>>
    /\ result' = None
    /\ UNCHANGED << caller, invoked, agg_report, fn_call, fn_ret, parked >>
    /\ UNCHANGED << code, filename, parso_vars, masking_vars, raised >>

\* The second call finds the import as the first did.
SameImport(line) == prev # None => prev[1].stdout[1] = line

Again_ImportParso ==
    /\ SameImport(">>> Using PARSO engine")
    /\ ImportParso

Again_ImportMissing ==
    /\ SameImport(">>> Parso not installed, using MASKING engine")
    /\ ImportMissing

\* The first call's walk ran to its end.
PrevWalked == prev # None /\ prev[1].tree # EmptyTree

\* parso.parse returns the tree it returned before.
Again_ParsoParse ==
    /\ pc = "parso"
    /\ IF prev = None THEN ParsoParse
       ELSE PrevWalked /\ ParsoReturns(prev[1].tree)

Again_WalkNode ==
    /\ pc = "walk"
    /\ WalkNode

Again_ParsoReturn ==
    /\ pc = "walk"
    /\ ParsoReturn

\* parso.parse raises, in the second call if it did in the first.
Again_ParsoFails ==
    /\ pc = "parso"
    /\ ~ PrevWalked
    /\ ParsoFails

\* ast.parse does what it did with this text before, if it was asked.
Again_ParseClean ==
    /\ pc = "masking"
    /\ \A o \in Known : o[1] = "clean"
    /\ ParseClean

Again_ParseSyntaxError ==
    /\ pc = "masking"
    /\ IF Known = {} THEN ParseSyntaxError
       ELSE \E o \in Known : o[1] = "SyntaxError" /\ ExceptSyntaxError(o[2][1])

Again_ParseRaises ==
    /\ pc = "masking"
    /\ \A o \in Known : o[1] = "raises"
    /\ ParseRaises

NextTwice ==
    \/ Again_ImportParso
    \/ Again_ImportMissing
    \/ Again_ParsoParse
    \/ Again_WalkNode
    \/ Again_ParsoReturn
    \/ Again_ParsoFails
    \/ Again_ParseClean
    \/ Again_ParseSyntaxError
    \/ Again_ParseRaises
    \/ CallAgain

SpecTwice == Init /\ [][NextTwice]_vars

\* ----------------------------------------------- two calls at a time

\* The sources of two concurrent calls, and the trees parso builds for them.
ConcSource1 == << PASS >>
ConcSource2 == << << " ", "\t", "x", " " >> >>
ConcTrees == TreesOf(1) \cup TreesOf(2)

\* Everything a call keeps in its frame: its arguments, its position, its
\* locals and what it returns or raises.  What it prints goes to the one
\* stdout of the process.
Frame ==
    [ code |-> code, filename |-> filename, pc |-> pc,
      tree |-> tree, stack |-> stack, visited |-> visited,
      p_findings |-> p_findings, idx_holder |-> idx_holder,
      masked |-> masked, seen_lines |-> seen_lines, idx |-> idx, findings |-> findings,
      failures |-> failures, attempts |-> attempts, mask_log |-> mask_log,
      result |-> result, raised |-> raised ]

\* The frame of a call of check_python_syntax(source, fname) not yet started.
NewFrame(source, fname) ==
    [ code |-> source, filename |-> fname, pc |-> "call",
      tree |-> EmptyTree, stack |-> <<>>, visited |-> <<>>,
      p_findings |-> <<>>, idx_holder |-> 0,
      masked |-> <<>>, seen_lines |-> {}, idx |-> 0, findings |-> <<>>,
      failures |-> <<>>, attempts |-> 0, mask_log |-> <<>>,
      result |-> None, raised |-> None ]

\* The frame f runs on.
Resume(f) ==
    /\ code' = f.code
    /\ filename' = f.filename
    /\ pc' = f.pc
    /\ tree' = f.tree
    /\ stack' = f.stack
    /\ visited' = f.visited
    /\ p_findings' = f.p_findings
    /\ idx_holder' = f.idx_holder
    /\ masked' = f.masked
    /\ seen_lines' = f.seen_lines
    /\ idx' = f.idx
    /\ findings' = f.findings
    /\ failures' = f.failures
    /\ attempts' = f.attempts
    /\ mask_log' = f.mask_log
    /\ result' = f.result
    /\ raised' = f.raised

\* Two calls whose emission counter is one module-level variable.
SwitchSharedCounter ==
    /\ parked # None
    /\ parked[1].pc \notin { "returned", "raised" }
    /\ parked' = Some(Frame)
    /\ Resume([ parked[1] EXCEPT !.idx = idx ])
    /\ UNCHANGED << caller, invoked, agg_report, fn_call, fn_ret, prev, stdout >>

\* The scheduler takes the running call off and lets the other one run.
Switch ==
    /\ parked # None
    /\ parked[1].pc \notin { "returned", "raised" }
    /\ parked' = Some(Frame)
    /\ Resume(parked[1])
    /\ UNCHANGED << caller, invoked, agg_report, fn_call, fn_ret, prev, stdout >>

\* parso.parse returns one of the small trees.
Conc_ParsoParse ==
    /\ pc = "parso"
    /\ \E t \in ConcTrees : ParsoReturns(t)

InitConc ==
    /\ code = ConcSource1
    /\ filename = None
    /\ pc = "call"
    /\ caller = NoCaller
    /\ invoked = <<>>
    /\ agg_report = None
    /\ fn_call = NoCall
    /\ fn_ret = None
    /\ prev = None
    /\ parked = Some(NewFrame(ConcSource2, Some("a.py")))
    /\ FreshFrame

NextConc ==
    \/ ImportParso
    \/ ImportMissing
    \/ Conc_ParsoParse
    \/ WalkNode
    \/ ParsoReturn
    \/ ParsoFails
    \/ ParseClean
    \/ ParseSyntaxError
    \/ ParseRaises
    \/ Switch

SpecConc == InitConc /\ [][NextConc]_vars

\* ------------------------------------------------ the tree walk alone

\* Largest tree of the walk on its own, in nodes.
WalkNodes == 4

\* The source of that walk: one line that holds the fragment "x".
WalkSource == << << " ", "\t", "x", " " >> >>

\* parso.parse returns a tree of up to WalkNodes nodes.
Walk_ParsoParse ==
    /\ pc = "parso"
    /\ \E n \in 1..WalkNodes : \E t \in TreesOf(n) : ParsoReturns(t)

InitWalk ==
    /\ code = WalkSource
    /\ filename = None
    /\ pc = "call"
    /\ OuterIdle
    /\ FreshFrame

\* parso is there and _check_with_parso runs to its end.
NextWalk ==
    \/ ImportParso
    \/ Walk_ParsoParse
    \/ WalkNode
    \/ ParsoReturn

SpecWalk == InitWalk /\ [][NextWalk]_vars

\* ----------------------------------------------------------- properties

\* The number of lines of the input.
N == Len(code)

\* The call has returned a report.
Returned == pc = "returned"

\* The engine whose report a returned call returns: the Selector's last
\* print names the engine it called last.
ByParso == Returned /\ stdout[Len(stdout)] = ">>> Using PARSO engine"
ByMasking == Returned /\ stdout[Len(stdout)] # ">>> Using PARSO engine"

\* The returned report.
TheReport == result[1]

\* The line and column a SyntaxError is reported at (absent or 0 reads 1).
LineOf(e) == IF e.lineno = None \/ e.lineno = <<0>> THEN 1 ELSE e.lineno[1]
ColOf(e) == IF e.offset = None \/ e.offset = <<0>> THEN 1 ELSE e.offset[1]

\* C1: check_python_syntax never raises: whatever the input and however an
\* engine fails, the call does not end by propagating an exception.
C1_NeverRaises == pc # "raised"

\* C2: the mask-and-reparse loop makes at most N+1 parse attempts (while it
\* is still looping at most N have been made, one per masked line), and no
\* line is masked twice; masked lines are lines of the input.
C2_BoundedAttempts ==
    /\ attempts <= N + 1
    /\ pc = "masking" => attempts <= N /\ attempts = Len(mask_log)
    /\ \A i, j \in 1..Len(mask_log) : i # j => mask_log[i] # mask_log[j]
    /\ \A i \in 1..Len(mask_log) : mask_log[i] \in 1..N

\* C2 happens: a call on an input of at least two lines returned after N+1
\* attempts, every line masked.
C2_Witness ==
    /\ Returned
    /\ N >= 2
    /\ attempts = N + 1
    /\ Len(mask_log) = N

\* C3: for a valid input (ast.parse accepts the text as given, resp. the
\* parso tree holds no error node) the report is ok with no findings; the
\* masking engine then masked nothing and parsed exactly once.
C3_ValidInputIsOk ==
    /\ ByMasking /\ failures = <<>> =>
          /\ TheReport.ok
          /\ TheReport.findings = <<>>
          /\ attempts = 1
          /\ mask_log = <<>>
          /\ masked = code
    /\ ByParso /\ (\A n \in 1..tree.n : ~tree.attr[n].err) =>
          /\ TheReport.ok
          /\ TheReport.findings = <<>>

\* C3 happens: the masking engine returned for a non-empty input its parser
\* accepted.
C3_Witness ==
    /\ ByMasking
    /\ failures = <<>>
    /\ N >= 1
    /\ TheReport.ok

\* C4: under the masking engine every SyntaxError is recorded as a finding
\* (none lost); when the first attempt failed the report is not ok, has a
\* finding, and its first finding carries the line, column, message and
\* class name of the first failure.
C4_FirstFailureReported ==
    /\ pc \in { "masking", "returned" } => Len(findings) = Len(failures)
    /\ ByMasking /\ failures # <<>> =>
          /\ ~TheReport.ok
          /\ Len(TheReport.findings) >= 1
          /\ LET f == TheReport.findings[1]
                 e == failures[1]
             IN  /\ f.location.start.line = LineOf(e)
                 /\ f.location.start.column = ColOf(e)
                 /\ f.message.text = e.msg
                 /\ f.category = e.cls

\* C4 happens: the first attempt failed with an IndentationError, a later
\* one failed too, and the call returned.
C4_Witness ==
    /\ ByMasking
    /\ Len(failures) >= 2
    /\ failures[1].cls = "IndentationError"

\* C5: the returned findings hold no two entries with the same filename,
\* category, message, start line and start column.
C5_NoDuplicateFindings ==
    Returned =>
        \A i, j \in 1..Len(TheReport.findings) :
            LET f == TheReport.findings[i]
                g == TheReport.findings[j]
            IN  i # j =>
                  \/ f.filename # g.filename
                  \/ f.category # g.category
                  \/ f.message # g.message
                  \/ f.location.start.line # g.location.start.line
                  \/ f.location.start.column # g.location.start.column

\* C5 happens: the masking engine recorded the same diagnosis twice and
\* returned fewer findings than it recorded.
C5_Witness ==
    /\ ByMasking
    /\ Len(findings) >= 2
    /\ Len(TheReport.findings) < Len(findings)

\* C6: in every returned report, ok is true exactly when there are no
\* findings.
C6_OkIffNoFindings ==
    Returned => (TheReport.ok <=> TheReport.findings = <<>>)

\* C6 happens: the tree-walk engine returned a report that is not ok.
C6_Witness ==
    /\ ByParso
    /\ ~TheReport.ok
    /\ Len(TheReport.findings) >= 1

\* The snippet a finding at this line must show: the original line, or the
\* empty string out of range.
OriginalLine(l) == IF l \in 1..N THEN code[l] ELSE <<>>

\* C7: every finding of the masking engine, recorded or returned, shows the
\* original text of its line (empty out of range), and never the text the
\* working copy holds in its place.
C7_SnippetIsOriginal ==
    /\ pc \in { "masking", "returned" } =>
          \A i \in 1..Len(findings) :
              findings[i].snippet = OriginalLine(findings[i].location.start.line)
    /\ ByMasking =>
          \A i \in 1..Len(TheReport.findings) :
              LET f == TheReport.findings[i]
                  l == f.location.start.line
              IN  /\ f.snippet = OriginalLine(l)
                  /\ l \in 1..N /\ masked[l] # code[l] => f.snippet # masked[l]

\* C7 happens: the report holds a finding recorded for a line that was
\* already masked, and whose masked text differs from the original.
C7_Witness ==
    /\ ByMasking
    /\ \E i \in 2..Len(TheReport.findings) :
          LET f == TheReport.findings[i]
              l == f.location.start.line
          IN  /\ l \in 1..N
              /\ masked[l] # code[l]
              /\ f.id[4] = Len(failures)
              /\ \E j \in 1..(Len(failures) - 1) : LineOf(failures[j]) = l

\* C8: no returned finding of the masking engine comes from a parse failure
\* located on a line that held the placeholder, not the user's text, when
\* it was parsed (the finding with counter k comes from the k-th failure).
C8_NoFindingFromMaskedLine ==
    ByMasking =>
        \A i \in 1..Len(TheReport.findings) :
            LET k == TheReport.findings[i].id[4]
                l == LineOf(failures[k])
            IN  ~ /\ l \in 1..N
                  /\ masked[l] # code[l]
                  /\ \E j \in 1..(k - 1) : LineOf(failures[j]) = l

\* C9: every returned finding starts on a line of the input, 1 <= L <= N.
C9_LinesExist ==
    Returned =>
        \A i \in 1..Len(TheReport.findings) :
            TheReport.findings[i].location.start.line \in 1..N

\* C10: the returned report is the tree walk's exactly when parso was
\* imported and the walk ran to its end (every node visited, no parse by
\* ast.parse); otherwise it is the masking engine's report on the same
\* input and filename: its findings are, deduplicated, one per SyntaxError
\* of ast.parse, numbered from 1, and nothing of the tree walk is left.
C10_EngineOfTheReport ==
    Returned =>
        IF stdout = << ">>> Using PARSO engine" >>
        THEN /\ attempts = 0
             /\ stack = <<>>
             /\ Len(visited) = tree.n
             /\ findings = <<>>
             /\ TheReport.findings = _dedupe_findings(p_findings)
             /\ Len(p_findings) = Cardinality({ n \in 1..tree.n : tree.attr[n].err })
        ELSE /\ attempts >= 1
             /\ p_findings = <<>>
             /\ Len(findings) = Len(failures)
             /\ \A i \in 1..Len(findings) :
                    /\ findings[i].id[4] = i
                    /\ findings[i].location.start.line = LineOf(failures[i])
                    /\ findings[i].message = [ text |-> failures[i].msg, near |-> <<>> ]
                    /\ findings[i].snippet = OriginalLine(LineOf(failures[i]))
             /\ TheReport.findings = _dedupe_findings(findings)
             /\ TheReport.filename = (IF filename = None THEN "<string>" ELSE filename[1])

\* C10 happens: parso was imported, the tree-walk engine raised, and the
\* call returned the masking engine's report with a finding.
C10_Witness ==
    /\ Returned
    /\ Len(stdout) = 2
    /\ stdout[1] = ">>> Using PARSO engine"
    /\ Len(TheReport.findings) >= 1

\* The syntax report the caller got back has findings.
SyntaxFound == pc = "returned" /\ result[1].findings # <<>>

\* C11: for every submission the caller invokes the syntax check exactly
\* once and before any other analyzer, and once that check has returned a
\* non-empty findings list no security, style or performance analyzer is
\* invoked.
C11_SyntaxGate ==
    /\ invoked # <<>> => invoked[1] = "syntax"
    /\ \A i \in 2..Len(invoked) : invoked[i] # "syntax"
    /\ agg_report # None => invoked # <<>>
    /\ SyntaxFound => invoked = << "syntax" >>

\* The returned report has a finding that starts at line l.
FindingAt(l) ==
    \E i \in 1..Len(TheReport.findings) : TheReport.findings[i].location.start.line = l

\* C12: the masking engine on the three lines 'def x(:', '  pass', 'x =='
\* returns ok = false with a finding at line 1 and, line 1 once masked, a
\* second finding at line 3.
C12_ScenarioC ==
    (ByMasking /\ code = ScenarioC) =>
        /\ ~ TheReport.ok
        /\ FindingAt(1)
        /\ FindingAt(3)

\* The failures of the call lie on pairwise distinct lines of the source.
DistinctInRange ==
    /\ \A i \in 1..Len(failures) : 1 <= LineOf(failures[i]) /\ LineOf(failures[i]) <= N
    /\ \A i, j \in 1..Len(failures) : i # j => LineOf(failures[i]) # LineOf(failures[j])

\* C13: when the parser's failures lie on k >= 1 distinct in-range lines
\* (masking each removes its failure and creates none), the report has
\* exactly k findings, one per failing line in the parser's order, and the
\* loop ends on a successful parse after k+1 attempts, every failing line
\* masked and the stall check never fired.
C13_OneFindingPerFailingLine ==
    (ByMasking /\ Len(failures) >= 1 /\ DistinctInRange) =>
        /\ Len(TheReport.findings) = Len(failures)
        /\ \A i \in 1..Len(failures) :
            TheReport.findings[i].location.start.line = LineOf(failures[i])
        /\ attempts = Len(failures) + 1
        /\ Len(mask_log) = Len(failures)
        /\ \A i \in 1..Len(failures) : mask_log[i] = LineOf(failures[i])

\* Two failures on two lines, then a clean parse.
C13_Witness ==
    /\ ByMasking
    /\ Len(failures) = 2
    /\ DistinctInRange
    /\ attempts = 3

\* The indices of the findings that no earlier finding shares the key of.
FirstOfKey(fs) ==
    { i \in 1..Len(fs) : \A j \in 1..(i - 1) : DedupeKey(fs[j]) # DedupeKey(fs[i]) }

\* C14: _dedupe_findings returns exactly the subsequence that keeps, of
\* each distinct key, the first finding: the later findings of a key are
\* dropped, the kept ones stay in their relative order, and a finding whose
\* key no earlier finding has is never dropped.
C14_DedupeKeepsFirsts ==
    (fn_call.fn = "_dedupe_findings" /\ fn_ret # None) =>
        fn_ret[1] = PickIdx(fn_call.args, FirstOfKey(fn_call.args))

\* A list whose second finding repeats the key of the first and whose third
\* has a new key: the result is the first and the third.
C14_Witness ==
    /\ fn_call.fn = "_dedupe_findings"
    /\ fn_ret # None
    /\ Len(fn_call.args) = 3
    /\ FirstOfKey(fn_call.args) = { 1, 3 }
    /\ fn_ret[1] = << fn_call.args[1], fn_call.args[3] >>

\* C15: two calls on the same source and filename, with the same engine
\* choice and a deterministic parser, return identical reports: nothing the
\* first call left (emission counter, masked-line set, working copy) shows
\* in the second.
C15_SameReportAgain ==
    (prev # None /\ Returned) => TheReport = prev[1].result

\* The second call has returned, both calls by the masking engine with two
\* findings recorded.
C15_Witness ==
    /\ prev # None
    /\ ByMasking
    /\ Len(prev[1].failures) = 2
    /\ Len(failures) = 2
    /\ Len(TheReport.findings) = 2

\* The report the masking engine returns when it runs alone on the
\* arguments of frame f and the parser fails as it did for f.
AloneMasking(f) ==
    Report(_dedupe_findings(
               [ i \in 1..Len(f.failures) |->
                   _finding(f.code, f.filename, f.failures[i].cls,
                            [ text |-> f.failures[i].msg, near |-> <<>> ],
                            LineOf(f.failures[i]), ColOf(f.failures[i]),
                            f.failures[i].end_lineno, f.failures[i].end_offset, i) ]),
           f.filename)

\* The report the tree walk returns when it runs alone on the arguments of
\* frame f and parso returns the tree it returned for f.
AloneParso(f) ==
    LET IsErr(n) == f.tree.attr[n].err
        errs == SelectSeq(f.visited, IsErr)
    IN  Report(_dedupe_findings(
                   [ i \in 1..Len(errs) |->
                       WalkFinding(f.code, f.filename, f.tree.attr[errs[i]], i) ]),
               f.filename)

\* A call that has returned has returned what it returns when run alone.
AsAlone(f) ==
    f.pc = "returned" =>
        f.result[1] = IF f.tree # EmptyTree THEN AloneParso(f) ELSE AloneMasking(f)

C17_NoSideEffect ==
    [][stdout' = stdout /\ code' = code /\ filename' = filename]_vars

\* The masking engine has failed with an exception that is not a
\* SyntaxError: no fallback is left to absorb it.
InternalFailure == attempts >= 1 /\ raised # None

\* C18: when an engine fails with an internal exception no fallback can
\* absorb (ast.parse raising a non-SyntaxError in the masking engine, called
\* directly or after a tree-walk failure), the call returns a report with
\* ok = false and exactly one finding, at line 1, describing the failure.
C18_InternalFailureReported ==
    InternalFailure =>
        /\ result # None
        /\ ~ result[1].ok
        /\ Len(result[1].findings) = 1
        /\ result[1].findings[1].location.start.line = 1

\* C19: within one report the ids of the findings are pairwise distinct,
\* whichever engine built it and whatever deduplication removed.
C19_DistinctIds ==
    Returned =>
        \A i, j \in 1..Len(TheReport.findings) :
            i # j => IdText(TheReport.findings[i].id) # IdText(TheReport.findings[j].id)

\* A report with two findings at the same line and column: their ids
\* differ in the counter only.
C19_Witness ==
    /\ Returned
    /\ Len(TheReport.findings) = 2
    /\ TheReport.findings[1].location.start = TheReport.findings[2].location.start
    /\ TheReport.findings[1].id[2] = TheReport.findings[2].id[2]
    /\ TheReport.findings[1].id[3] = TheReport.findings[2].id[3]

\* C20: _make_caret(col, end_col), each an integer or missing, returns
\* exactly c-1 spaces followed by k carets, where c is col if col >= 1 and
\* 1 otherwise, and k is end_col - c if end_col is there and greater than
\* c, and 1 otherwise: the underline is never empty.
C20_CaretShape ==
    (fn_call.fn = "_make_caret" /\ fn_ret # None) =>
        LET col     == fn_call.args[1]
            end_col == fn_call.args[2]
            c       == IF col # None /\ col[1] >= 1 THEN col[1] ELSE 1
            k       == IF end_col # None /\ end_col[1] > c THEN end_col[1] - c ELSE 1
        IN  /\ Len(fn_ret[1]) = (c - 1) + k
            /\ \A i \in 1..(c - 1) : fn_ret[1][i] = " "
            /\ \A i \in c..(c - 1 + k) : fn_ret[1][i] = "^"
            /\ k >= 1

\* Column 2 up to column 4: one space, two carets.
C20_Witness ==
    /\ fn_call.fn = "_make_caret"
    /\ fn_call.args = << Some(2), Some(4) >>
    /\ fn_ret = Some(<< " ", "^", "^" >>)

\* C21: in every finding _finding builds, location.start.column is at
\* least 1 (a column of zero or less is reported as 1), and when no end
\* position is given location.end equals location.start.
C21_ColumnAtLeastOne ==
    (fn_call.fn = "_finding" /\ fn_ret # None) =>
        LET col == fn_call.args[2]
            f   == fn_ret[1]
        IN  /\ f.location.start.column >= 1
            /\ col < 1 => f.location.start.column = 1
            /\ (fn_call.args[3] = None /\ fn_call.args[4] = None) =>
                  f.location.end = f.location.start

\* Rule i holds for the message and the snippet.
RuleHolds(i, msg, snippet) ==
    LET m == Lower(msg)
    IN  CASE i = 1 -> Rule_UnterminatedString(m, snippet)
          [] i = 2 -> Rule_LoneQuote(m, snippet)
          [] i = 3 -> Rule_TabsAndSpaces(m, snippet)
          [] i = 4 -> Rule_Indentation(m, snippet)
          [] i = 5 -> Rule_UnexpectedEOF(m, snippet)
          [] i = 6 -> Rule_AssignToLiteral(m, snippet)
          [] i = 7 -> Rule_DuplicateArgument(m, snippet)
          [] i = 8 -> Rule_ReturnOutside(m, snippet)
          [] i = 9 -> Rule_BreakOutside(m, snippet)
          [] i = 10 -> Rule_FStringBrace(m, snippet)
          [] i = 11 -> Rule_InvalidCharacter(m, snippet)
          [] i = 12 -> Rule_LoneCloseParen(m, snippet)
          [] i = 13 -> Rule_OpenParen(m, snippet)
          [] i = 14 -> Rule_AssignInCondition(m, snippet)
          [] i = 15 -> Rule_MissingColon(m, snippet)

\* C22: _suggest_fix returns the suggestion of the first rule, in the
\* order of the source, that holds for the message and the snippet, and the
\* empty string when none holds; a message that contains 'unterminated
\* string' or 'EOL while scanning string literal' gets the close-the-string
\* hint whatever the snippet is.
C22_FirstRuleWins ==
    (fn_call.fn = "_suggest_fix" /\ fn_ret # None) =>
        LET msg     == fn_call.args[1]
            snippet == fn_call.args[2]
            holds   == { i \in 1..NumRules : RuleHolds(i, msg, snippet) }
        IN  /\ fn_ret[1] = IF holds = {} THEN ""
                           ELSE Suggestions[CHOOSE i \in holds : \A j \in holds : i <= j]
            /\ (In(<< "u", "n", "t", "e", "r", "m", "i", "n", "a", "t", "e", "d", " ", "s", "t", "r", "i", "n", "g" >>, msg) \/ In(<< "E", "O", "L", " ", "w", "h", "i", "l", "e", " ", "s", "c", "a", "n", "n", "i", "n", "g", " ", "s", "t", "r", "i", "n", "g", " ", "l", "i", "t", "e", "r", "a", "l" >>, msg)) =>
                  fn_ret[1] = "Close the string with matching quotes."

\* The message of an error node whose fragment is an unclosed call that
\* holds the words 'unterminated string', on the snippet 'if (x = 1': the
\* parenthesis, '=' and colon rules hold too, the string rule wins.
C22_Witness ==
    /\ fn_call.fn = "_suggest_fix"
    /\ fn_ret = Some("Close the string with matching quotes.")
    /\ In(<< "u", "n", "t", "e", "r", "m", "i", "n", "a", "t", "e", "d", " ", "s", "t", "r", "i", "n", "g" >>, fn_call.args[1])
    /\ { i \in 1..NumRules : RuleHolds(i, fn_call.args[1], fn_call.args[2]) } = { 1, 13, 14, 15 }

\* C23: every finding of every returned report has severity "high", the
\* constant of the output schema.
C23_SeverityHigh ==
    Returned =>
        \A i \in 1..Len(TheReport.findings) : TheReport.findings[i].severity = "high"

\* The mask-and-reparse loop is running or has returned.
InLoop == pc = "masking" \/ ByMasking

\* The working copy is the source with the lines of the log masked: as many
\* lines, a line never masked as in the source, a masked line the
\* indentation of the source's line then 'pass'.
WorkingCopyShape ==
    InLoop =>
        /\ Len(masked) = N
        /\ \A l \in 1..N :
              IF \E i \in 1..Len(mask_log) : mask_log[i] = l
              THEN masked[l] = LeadingWS(code[l]) \o PASS
              ELSE masked[l] = code[l]

\* A step of the loop leaves the source alone and changes at most one line
\* of the working copy, the line of the failure it has just recorded.
OnlyFailingLineChanges ==
    pc = "masking" =>
        /\ code' = code
        /\ Len(masked') = Len(masked)
        /\ \A l \in 1..Len(masked) :
              masked'[l] # masked[l] =>
                  /\ Len(failures') = Len(failures) + 1
                  /\ l = LineOf(failures'[Len(failures')])

\* C24: all through the mask-and-reparse loop the working copy has as many
\* lines as the source, its never-masked lines are the source's lines, its
\* masked lines are the leading spaces and tabs of the source's line
\* followed by 'pass', the source is never modified, and a masking step
\* changes the failing line only.
C24_WorkingCopy ==
    [] WorkingCopyShape /\ [][OnlyFailingLineChanges]_vars

\* One line of a two-line source is masked, an indented one: the working
\* copy holds its indentation then 'pass', and the other line as written.
C24_Witness ==
    /\ pc = "masking"
    /\ N = 2
    /\ Len(mask_log) = 1
    /\ LeadingWS(code[mask_log[1]]) # <<>>
    /\ masked[mask_log[1]] = LeadingWS(code[mask_log[1]]) \o PASS
    /\ masked[3 - mask_log[1]] = code[3 - mask_log[1]]

\* This step is a parse attempt that fails on a line of the guard set.
StallHit ==
    /\ pc = "masking"
    /\ Len(failures') = Len(failures) + 1
    /\ LineOf(failures'[Len(failures')]) \in seen_lines

\* What a stall hit does: it records the finding of its failure and nothing
\* else, masks nothing, and the engine returns the deduplicated findings.
StopsAtOnce ==
    StallHit =>
        LET e == failures'[Len(failures')]
        IN  /\ Len(findings') = Len(findings) + 1
            /\ SubSeq(findings', 1, Len(findings)) = findings
            /\ findings'[Len(findings')].category = e.cls
            /\ findings'[Len(findings')].message.text = e.msg
            /\ findings'[Len(findings')].location.start.line = LineOf(e)
            /\ masked' = masked
            /\ mask_log' = mask_log
            /\ seen_lines' = seen_lines
            /\ pc' = "returned"
            /\ raised' = None
            /\ result' = Some(Report(_dedupe_findings(findings'), filename))

\* Nothing is parsed or masked once the engine has returned.
NothingAfterReturn ==
    pc = "returned" => attempts' = attempts /\ masked' = masked /\ pc' = pc

\* C25: a parse attempt that fails on a line already in the masked set
\* makes the loop record the finding of that failure and stop at once: no
\* masking and no parse attempt follows, and the engine returns a normal
\* report, the stall being neither raised nor reported as a finding of its
\* own.
C25_StallStopsAtOnce ==
    [][StopsAtOnce /\ NothingAfterReturn]_vars

\* The engine has returned on a stall hit: its last failure lies on the
\* line of an earlier one, which was masked.
C25_Witness ==
    /\ ByMasking
    /\ Len(failures) >= 2
    /\ LineOf(failures[Len(failures)]) \in seen_lines
    /\ \E i \in 1..Len(mask_log) : mask_log[i] = LineOf(failures[Len(failures)])
    /\ attempts = Len(failures)
    /\ Len(mask_log) = Len(failures) - 1

RECURSIVE PreOrder(_, _)
\* The nodes of the subtrees rooted at nodes, each root before its
\* subtree, each subtree before the next root.
PreOrder(t, nodes) ==
    IF nodes = <<>> THEN <<>>
    ELSE << Head(nodes) >> \o PreOrder(t, Children(t, Head(nodes))) \o PreOrder(t, Tail(nodes))

RECURSIVE Ancestor(_, _, _)
\* Node a is a proper ancestor of node b.
Ancestor(t, a, b) ==
    /\ t.parent[b] # 0
    /\ t.parent[b] = a \/ Ancestor(t, a, t.parent[b])

\* The error nodes among the visited nodes, in the order of the visits.
VisitedErrors ==
    LET IsErr(n) == tree.attr[n].err
    IN  SelectSeq(visited, IsErr)

\* C26: the tree walk visits the nodes in depth-first pre-order, each node
\* once and all of them by the end, the descendants of error nodes
\* included; its findings before deduplication are one per error node
\* visited, in the order of the visits (an error node before the error
\* nodes nested in it), with the counters 1, 2, 3, ...
C26_PreOrderWalk ==
    (pc = "walk" \/ ByParso) =>
        /\ visited = SubSeq(PreOrder(tree, << 1 >>), 1, Len(visited))
        /\ \A i, j \in 1..Len(visited) : i # j => visited[i] # visited[j]
        /\ ByParso => { visited[i] : i \in 1..Len(visited) } = 1..tree.n
        /\ Len(p_findings) = Len(VisitedErrors)
        /\ \A i \in 1..Len(p_findings) :
              /\ p_findings[i] = WalkFinding(code, filename, tree.attr[VisitedErrors[i]], i)
              /\ p_findings[i].id[4] = i
        /\ \A i, j \in 1..Len(VisitedErrors) :
              Ancestor(tree, VisitedErrors[i], VisitedErrors[j]) => i < j

\* The walk of a four-node tree is over: node 4, an error node, is the
\* child of error node 2 and was visited before node 3, an error node too.
C26_Witness ==
    /\ ByParso
    /\ tree.n = 4
    /\ visited = << 1, 2, 4, 3 >>
    /\ VisitedErrors = << 2, 4, 3 >>
    /\ Len(p_findings) = 3

\* The gating aggregator has returned a report.
GatingReturned == caller.fn = GATING /\ agg_report # None

\* C27: the gating aggregator, when the syntax report is not ok, returns a
\* report whose only keys are 'syntax' and 'summary' with overall_status
\* 'STOPPED_DUE_TO_SYNTAX_ERRORS', no other analyzer having run; otherwise
\* it returns a report with the keys syntax, security, style, performance
\* and summary whose overall_status is 'PASS' or 'ERRORS FOUND'.
C27_GatingReportShape ==
    GatingReturned =>
        LET r == agg_report[1]
        IN  /\ r.syntax = TheReport
            /\ IF ~ TheReport.ok
               THEN /\ r.keys = { "syntax", "summary" }
                    /\ r.summary.overall_status = "STOPPED_DUE_TO_SYNTAX_ERRORS"
                    /\ invoked = << "syntax" >>
               ELSE /\ r.keys = { "syntax", "security", "style", "performance", "summary" }
                    /\ r.summary.overall_status \in { "PASS", "ERRORS FOUND" }
                    /\ invoked = << "syntax", "security", "style", "performance" >>

\* The gating aggregator has stopped on a syntax report with a finding.
C27_Witness ==
    /\ GatingReturned
    /\ Len(TheReport.findings) >= 1
    /\ agg_report[1].keys = { "syntax", "summary" }
    /\ agg_report[1].summary.overall_status = "STOPPED_DUE_TO_SYNTAX_ERRORS"

\* The gating aggregator has built its summary with build_summary.
SummaryBuilt == GatingReturned /\ "performance" \in agg_report[1].keys

\* C30: in the gating aggregator, whenever build_summary builds the summary
\* the syntax report is ok with no findings, so syntax_issues is 0 and
\* total_issues counts the other analyzers' issues only (the status is
\* 'PASS' exactly when they report none); and on every syntax report the
\* gate on 'ok' is closed exactly when the findings list is not empty.
C30_SummaryHasNoSyntaxIssues ==
    /\ SummaryBuilt =>
          /\ TheReport.ok
          /\ TheReport.findings = <<>>
          /\ agg_report[1].summary.syntax_issues = 0
          /\ agg_report[1].summary.total_issues \in OtherIssues
          /\ agg_report[1].summary.overall_status = "PASS" <=>
                agg_report[1].summary.total_issues = 0
    /\ (caller.fn = GATING /\ Returned) =>
          (Gate(TheReport) <=> TheReport.findings # <<>>)

\* The gating aggregator has built a summary that counts an issue of
\* another analyzer and none of the syntax check.
C30_Witness ==
    /\ SummaryBuilt
    /\ agg_report[1].summary.syntax_issues = 0
    /\ agg_report[1].summary.total_issues = 1
    /\ agg_report[1].summary.overall_status = "ERRORS FOUND"

\* The start line of the i-th finding of a list.
StartLine(fs, i) == fs[i].location.start.line

\* C28: in the findings of the mask-and-reparse engine before
\* deduplication the start lines are pairwise distinct, except that the
\* last finding of a call that has returned may repeat the line of an
\* earlier one; so a returned report has at most two findings on any line,
\* and never more findings than parse attempts that failed.
C28_LinesDistinctButLast ==
    InLoop =>
        /\ \A i, j \in 1..Len(findings) :
              (i < j /\ StartLine(findings, i) = StartLine(findings, j)) =>
                  j = Len(findings) /\ pc = "returned"
        /\ Len(findings) <= Len(failures)
        /\ ByMasking =>
              /\ Len(TheReport.findings) <= Len(failures)
              /\ \A i \in 1..Len(TheReport.findings) :
                    Cardinality({ j \in 1..Len(TheReport.findings) :
                                    StartLine(TheReport.findings, j)
                                        = StartLine(TheReport.findings, i) }) <= 2

\* Both lines of the input were masked and the third failure lies on the
\* first one again, with another column: the report holds two findings on
\* that line.
C28_Witness ==
    /\ ByMasking
    /\ Len(findings) = 3
    /\ StartLine(findings, 3) = StartLine(findings, 1)
    /\ StartLine(findings, 2) # StartLine(findings, 1)
    /\ Len(TheReport.findings) = 3

\* This step is a parse attempt that fails on a line number outside the
\* working copy.
OutOfRangeHit ==
    /\ pc = "masking"
    /\ Len(failures') = Len(failures) + 1
    /\ LineOf(failures'[Len(failures')]) \notin 1..Len(masked)

\* What such a step does: one finding with an empty snippet, the working
\* copy as it was, and the engine returns.
OutOfRangeEndsLoop ==
    OutOfRangeHit =>
        /\ Len(findings') = Len(findings) + 1
        /\ SubSeq(findings', 1, Len(findings)) = findings
        /\ StartLine(findings', Len(findings')) = LineOf(failures'[Len(failures')])
        /\ findings'[Len(findings')].snippet = <<>>
        /\ masked' = masked
        /\ mask_log' = mask_log
        /\ attempts' = attempts + 1
        /\ pc' = "returned"
        /\ raised' = None
        /\ result' = Some(Report(_dedupe_findings(findings'), filename))

\* C29: a failure the parser reports on a line number outside 1..N makes
\* the mask-and-reparse engine record one finding for it, with an empty
\* snippet, leave the working copy unchanged and return normally: no parse
\* attempt follows and nothing is raised.
C29_OutOfRangeLine ==
    [][OutOfRangeEndsLoop /\ (pc = "returned" => attempts' = attempts)]_vars

\* The first line was masked, then the parser failed on line N+1: the
\* engine has returned with a second finding, whose snippet is empty.
C29_Witness ==
    /\ ByMasking
    /\ Len(failures) = 2
    /\ Len(mask_log) = 1
    /\ LineOf(failures[2]) = N + 1
    /\ Len(findings) = 2
    /\ findings[2].snippet = <<>>
    /\ StartLine(findings, 2) = N + 1

====
